---- MODULE Spec2Model ----
(***************************************************************************)
(* TV Jukebox (src/tvjuke.py): the event-to-playback state machine.        *)
(*                                                                         *)
(* Three kinds of thread share five module-level globals and the child     *)
(* playback processes:                                                     *)
(*   - the main thread (main / run_jukebox and what it calls),             *)
(*   - welcome-loop threads (loop_welcome_video), one started per session, *)
(*   - watchdog threads (monitor_video_end), one started per session.      *)
(* A step of the model is one access to shared state (a global, the lock,   *)
(* a child process).  stop_current_video takes process_lock, signals the   *)
(* child and waits for it in one step and clears current_process in the    *)
(* next, still holding the lock; play_video launches its child in one step *)
(* and assigns it, under the lock, in another.                             *)
(*                                                                         *)
(* Time: a recorded key-down is kept as the time elapsed since it, in      *)
(* units of 0.25 s (so time.time() - pressed_time is the stored value).    *)
(*                                                                         *)
(* The environment presses and releases keys, lets time pass, lets a child *)
(* play its file to the end, and has the input device present or not when  *)
(* run_jukebox looks for it.  It produces a bounded number of inputs.      *)
(***************************************************************************)
EXTENDS Integers, FiniteSets, Sequences, TLC

VARIABLES
    current_process,    \* tvjuke.py:38  handle of the active child, NONE = None
    process_lock,       \* tvjuke.py:39  TRUE while a thread holds the lock
    welcome_looping,    \* tvjuke.py:40
    shuffle_all,        \* tvjuke.py:41
    current_show,       \* tvjuke.py:42  NoShow = None
    exit_requested,     \* tvjuke.py:45
    procs,              \* the child processes somebody holds a handle of
    orphans,            \* how many children run with no handle left, by kind
    m,                  \* the main thread: position and live locals
    wd,                 \* the watchdog threads
    wl,                 \* the welcome-loop threads
    skip_pressed_time,  \* tvjuke.py:246 local of run_jukebox
    key_pressed_times,  \* tvjuke.py:248 local of run_jukebox
    session,            \* which call of run_jukebox by main this is (1, 2, ...)
    inputs,             \* inputs the environment can still produce
    free_env,           \* FALSE: the environment keeps to the habits of DeepSpec
    keys                \* the keys the environment presses

vars == <<current_process, process_lock, welcome_looping, shuffle_all, current_show,
          exit_requested, procs, orphans, m, wd, wl, skip_pressed_time,
          key_pressed_times, session, inputs, free_env, keys>>

env == <<session, inputs, free_env, keys>>

globals == <<welcome_looping, shuffle_all, current_show, exit_requested>>

----------------------------------------------------------------------------
(* Bounds of the model *)

\* calls of run_jukebox that main makes (each starts one watchdog thread and
\* one welcome-loop thread)
MaxSessions == 2
\* inputs the environment produces: key presses, playback endings, and the
\* events that reach the input loop after a very long press
MaxInputs == 2
\* the same, for the longer runs of DeepSpec
MaxInputsDeep == 3
\* a recorded key-down stops ageing here (above LONGER_PRESS_SECONDS)
MaxHold == 9

----------------------------------------------------------------------------
(* Configuration, tvjuke.py:11-35 *)

\* 0.75 s, in units of 0.25 s
LONG_PRESS_SECONDS == 3
\* 2 s, in units of 0.25 s
LONGER_PRESS_SECONDS == 8
SKIP_KEY_CODE == 6
\* stop_current_video, line 88: wait(timeout=2), in units of 0.25 s
GRACE == 8

NONE == 0
NoShow == "None"
NoTime == -1

\* The rows of KEY_MAP for the keys the model presses (2, 3 and the switch key).
KEY_MAP ==
    [k \in {2, 3, 6} |->
        CASE k = 2 -> [kind |-> "show", short |-> "The Simpsons", long |-> "Futurama"]
          [] k = 3 -> [kind |-> "show", short |-> "King of the Hill", long |-> "American Dad"]
          [] k = 6 -> [kind |-> "SKIP", short |-> NoShow, long |-> NoShow]]

Keys == DOMAIN KEY_MAP
ShowKeys == Keys \ {SKIP_KEY_CODE}

\* The media library on disk: shows/<show>/... ("King of the Hill" is an empty
\* directory, "American Dad" has no directory).
Library ==
    [s \in {"The Simpsons", "Futurama", "King of the Hill"} |->
        CASE s = "The Simpsons" -> {"simpsons.mp4"}
          [] s = "Futurama" -> {"futurama.mkv"}
          [] s = "King of the Hill" -> {}]

WelcomePool == {"welcome.mp4"}
ErrorPool == {"error.mp4"}

\* what str(e) can be when InputDevice(INPUT_DEVICE_PATH) raises, line 233
DeviceErrors == {"[Errno 13] Permission denied", "No such device"}

\* the handles that can be held at once: current_process and one local of
\* every thread
Slots == 1..(2 + 2 * MaxSessions)
Threads == 1..MaxSessions

----------------------------------------------------------------------------
(* Pure helpers *)

\* get_episodes: the playable files under shows/<show_name>
get_episodes(show_name) ==
    IF show_name \in DOMAIN Library THEN Library[show_name] ELSE {}

\* next_episode, lines 151-155: the episodes of every directory of SHOWS_DIR
all_eps == UNION {get_episodes(show) : show \in DOMAIN Library}

\* osd or default  (Python's "or" on an optional string)
OsdOr(osd, default) == IF osd = "" THEN default ELSE osd

\* play_video, lines 97-98: the file name without its directory and extension
name_without_ext(filepath) ==
    CASE filepath = "simpsons.mp4" -> "simpsons"
      [] filepath = "futurama.mkv" -> "futurama"
      [] filepath = "welcome.mp4" -> "welcome"
      [] filepath = "error.mp4" -> "error"
      [] OTHER -> filepath

\* a next_episode that plays from the whole library whatever the mode
next_episode_any(sa, cs, osd) ==
    {[file |-> e, osd |-> OsdOr(osd, "|SHUFFLE| ALL SHOWS")] : e \in all_eps}

\* next_episode for a caller that reads the mode in one go (the main thread,
\* the only writer of shuffle_all and current_show): the play_video calls it
\* can make, as [file, osd]; empty when it plays nothing.
next_episode(sa, cs, osd) ==
    IF sa
    THEN {[file |-> e, osd |-> OsdOr(osd, "|SHUFFLE| ALL SHOWS")] : e \in all_eps}
    ELSE IF cs # NoShow
         THEN {[file |-> e, osd |-> OsdOr(osd, "|SHUFFLE| " \o cs)] : e \in get_episodes(cs)}
         ELSE {}

\* a classification that puts both boundaries in the lower class
SkipClass_strict(duration) ==
    IF duration > LONGER_PRESS_SECONDS THEN "very-long"
    ELSE IF duration > LONG_PRESS_SECONDS THEN "long"
    ELSE "short"

\* run_jukebox, lines 270-286: the branch a switch-key release takes
SkipClass(duration) ==
    IF duration >= LONGER_PRESS_SECONDS THEN "very-long"
    ELSE IF duration >= LONG_PRESS_SECONDS THEN "long"
    ELSE "short"

\* run_jukebox, line 292
LongPress(duration) == duration >= LONG_PRESS_SECONDS

\* a selection with the two bindings exchanged
BoundShow_swapped(code, long_press) ==
    IF long_press THEN KEY_MAP[code].short ELSE KEY_MAP[code].long

\* handle_key_press, line 203
BoundShow(code, long_press) ==
    IF long_press THEN KEY_MAP[code].long ELSE KEY_MAP[code].short

----------------------------------------------------------------------------
(* Child processes *)

\* A handle (a Popen object) is a position of procs; procs holds the processes
\* somebody holds a handle of, numbered in the order of Refs.  A process that
\* still runs when the last handle of it is dropped can be reached by nobody:
\* it is counted in orphans, by what it is, until it ends.
FreeProc == [st |-> "free", file |-> "", loop |-> FALSE, osd |-> ""]

\* The states of a child: "running"; "kill_sent" (it ignored terminate, has
\* been sent SIGKILL and has not died yet); "terminated", "killed" and "exited"
\* (ended by terminate, by kill, by playing its file to the end).
Running == {"running", "kill_sent"}

\* proc.poll() is None
PollIsNone(p) == procs[p].st \in Running

\* the running processes somebody holds a handle of
Live == {p \in Slots : procs[p].st \in Running}

RECURSIVE Total(_)
\* the number of processes counted in the function orph
Total(orph) ==
    IF DOMAIN orph = {} THEN 0
    ELSE LET r == CHOOSE x \in DOMAIN orph : TRUE
         IN orph[r] + Total([x \in DOMAIN orph \ {r} |-> orph[x]])

\* the number of child processes that are running
LiveCount == Cardinality(Live) + Total(orphans)

FreeSlots == {p \in Slots : procs[p].st = "free"}
NewSlot == CHOOSE p \in FreeSlots : \A q \in FreeSlots : p <= q

\* stop_current_video, line 84: there is an active process and it is running
MustSignal == current_process # NONE /\ PollIsNone(current_process)

\* the 2 s of a grace that ran out have passed: a child that had been sent
\* SIGKILL before them has died
GraceOver(pt) ==
    [p \in Slots |-> IF pt[p].st = "kill_sent" THEN [pt[p] EXCEPT !.st = "killed"] ELSE pt[p]]

\* stop_current_video, lines 84-90, on the process table: terminate, then
\* wait(timeout=2).  how = "terminated": the child exits within the grace.
\* how = "kill_sent": it does not, and kill() is called once; the code does
\* not wait for the child after kill(), so the child is still running when
\* the function goes on to line 91 (KillLands ends it).
StopProcs(how) ==
    IF MustSignal
    THEN IF how = "kill_sent"
         THEN [GraceOver(procs) EXCEPT ![current_process].st = how]
         ELSE [procs EXCEPT ![current_process].st = how]
    ELSE procs

\* a recorded key-down after the 2 s of a grace that ran out
Waited(t) ==
    IF t = NoTime THEN t
    ELSE IF t + GRACE > MaxHold THEN MaxHold ELSE t + GRACE

\* the same 2 s for the processes nobody holds
StopOrphans(how) ==
    IF MustSignal /\ how = "kill_sent"
    THEN [r \in {x \in DOMAIN orphans : x.st # "kill_sent"} |-> orphans[r]]
    ELSE orphans

\* play_video, lines 97-121: cvlc launched on filepath; the marquee is set
\* only when not looping (line 109: osd_message or name_without_ext)
Popen(filepath, osd_message, loop) ==
    [procs EXCEPT ![NewSlot] =
        [st |-> "running", file |-> filepath, loop |-> loop,
         osd |-> IF loop THEN "" ELSE OsdOr(osd_message, name_without_ext(filepath))]]

\* The handles held: the local of the main thread, the global, the locals of
\* the watchdog threads and of the welcome-loop threads.
Refs(c, mm, wdd, wll) ==
    <<mm.proc, c>> \o [i \in Threads |-> wdd[i].proc] \o [i \in Threads |-> wll[i].proc]

\* the number of handle h among the handles of refs, in the order of refs
Rank(h, refs) ==
    LET first == CHOOSE j \in 1..Len(refs) :
                     refs[j] = h /\ \A k \in 1..(j - 1) : refs[k] # h
    IN Cardinality({refs[k] : k \in 1..first} \ {NONE})

\* The state of the handles after a step that leaves c in current_process,
\* mm, wdd and wll as the threads, pt as the processes and orph as the
\* processes nobody holds: a process that has ended and that nobody holds is
\* forgotten, one that runs and that nobody holds joins the orphans.
Commit(c, mm, wdd, wll, pt, orph) ==
    \E refs \in {Refs(c, mm, wdd, wll)} :
    \E held \in {{refs[j] : j \in 1..Len(refs)} \ {NONE}} :
    \E new \in {[h \in held \cup {NONE} |-> IF h = NONE THEN NONE ELSE Rank(h, refs)]} :
    \E old \in {[p \in 1..Cardinality(held) |-> CHOOSE h \in held : new[h] = p]} :
    \E lost \in {{p \in Slots \ held : pt[p].st \in Running}} :
        /\ current_process' = new[c]
        /\ m' = [mm EXCEPT !.proc = new[mm.proc]]
        /\ wd' = [i \in Threads |-> [wdd[i] EXCEPT !.proc = new[wdd[i].proc]]]
        /\ wl' = [i \in Threads |-> [wll[i] EXCEPT !.proc = new[wll[i].proc]]]
        /\ procs' = [p \in Slots |-> IF p \in DOMAIN old THEN pt[old[p]] ELSE FreeProc]
        /\ orphans' = IF lost = {} THEN orph
                       ELSE [r \in DOMAIN orph \cup {pt[p] : p \in lost} |->
                                (IF r \in DOMAIN orph THEN orph[r] ELSE 0)
                                    + Cardinality({p \in lost : pt[p] = r})]

----------------------------------------------------------------------------
(* Threads *)

MainIdle(pc) ==
    [pc |-> pc, ret |-> "", file |-> "", osd |-> "", proc |-> NONE,
     act |-> "", show |-> NoShow, dur |-> NoTime]

DeadThread == [pc |-> "dead", file |-> "", osd |-> "", proc |-> NONE]

NewThread(pc) == [DeadThread EXCEPT !.pc = pc]

AliveWd == {i \in Threads : wd[i].pc # "dead"}
AliveWl == {i \in Threads : wl[i].pc # "dead"}

\* The program at the start of main's first call of run_jukebox, with n
\* inputs to come from the environment and ks the keys it presses (free: with
\* no other limit on it).
Start(n, free, ks) ==
    /\ current_process = NONE
    /\ process_lock = FALSE
    /\ welcome_looping = FALSE
    /\ shuffle_all = FALSE
    /\ current_show = NoShow
    /\ exit_requested = FALSE
    /\ procs = [p \in Slots |-> FreeProc]
    /\ orphans = [r \in {} |-> 0]
    /\ m = MainIdle("reset")
    /\ wd = [i \in Threads |-> DeadThread]
    /\ wl = [i \in Threads |-> DeadThread]
    /\ skip_pressed_time = NoTime
    /\ key_pressed_times = [k \in ShowKeys |-> NoTime]
    /\ session = 1
    /\ inputs = n
    /\ free_env = free
    /\ keys = ks

Init == Start(MaxInputs, TRUE, Keys)

DeepInit == Start(MaxInputsDeep, FALSE, {2, SKIP_KEY_CODE})

FairInit == \E k \in {2, SKIP_KEY_CODE} : Start(MaxInputs, FALSE, {k})

----------------------------------------------------------------------------
(* play_video, lines 93-123, as run by the main thread *)

\* where the main thread goes on after line 91
AfterStop(pc) ==
    CASE pc = "pv_stop2" -> "pv_start"
      [] pc = "vl_stop2" -> "read"
      [] pc = "exit_stop2" -> "returned"

\* stop_current_video as called by the main thread at position from.  With a
\* running active process: lines 83-90, the lock is taken, the process is
\* signalled and waited for, and line 91 is the next step (M_StopAssign).
\* Without one, nothing happens between taking the lock and line 91, and
\* lines 83-91 are one step.  The main thread reads no event while it waits:
\* after a grace that ran out, a key that is down has been down 2 s longer.
M_Stop(from, held, how) ==
    /\ m.pc = from
    /\ ~process_lock
    /\ process_lock' = MustSignal
    /\ UNCHANGED <<globals, env>>
    /\ IF MustSignal /\ how = "kill_sent"
       THEN /\ skip_pressed_time' = Waited(skip_pressed_time)
            /\ key_pressed_times' = [k \in ShowKeys |-> Waited(key_pressed_times[k])]
       ELSE UNCHANGED <<skip_pressed_time, key_pressed_times>>
    /\ IF MustSignal
       THEN Commit(current_process, [m EXCEPT !.pc = held], wd, wl,
                   StopProcs(how), StopOrphans(how))
       ELSE Commit(NONE, [m EXCEPT !.pc = AfterStop(held)], wd, wl, procs, orphans)

\* line 95: stop_current_video()
M_PvStop(how) == M_Stop("pv_stop", "pv_stop2", how)

\* stop_current_video, line 91: current_process = None, and the lock is
\* released
M_StopAssign ==
    /\ m.pc \in {"pv_stop2", "vl_stop2", "exit_stop2"}
    /\ process_lock' = FALSE
    /\ UNCHANGED <<globals, skip_pressed_time, key_pressed_times, env>>
    /\ Commit(NONE, [m EXCEPT !.pc = AfterStop(m.pc)], wd, wl, procs, orphans)

\* line 121: process = subprocess.Popen(cmd), outside the lock
M_PvStart ==
    /\ m.pc = "pv_start"
    /\ UNCHANGED <<process_lock, globals, skip_pressed_time, key_pressed_times, env>>
    /\ Commit(current_process, [m EXCEPT !.pc = "pv_assign", !.proc = NewSlot], wd, wl,
              Popen(m.file, m.osd, FALSE), orphans)

\* lines 122-123: with process_lock: current_process = process
M_PvAssign ==
    /\ m.pc = "pv_assign"
    /\ ~process_lock
    /\ UNCHANGED <<process_lock, globals, skip_pressed_time, key_pressed_times, env>>
    /\ Commit(m.proc,
              [MainIdle(m.ret) EXCEPT !.act = IF m.ret = "read" THEN "" ELSE m.act,
                                      !.proc = NONE],
              wd, wl, procs, orphans)

\* The main thread after a handler's last write: next_episode's play_video
\* call when it makes one, back to the input loop when it makes none.
MainCall(choices, act, show) ==
    IF choices = {}
    THEN m' = MainIdle("read")
    ELSE \E c \in choices :
            m' = [pc |-> "pv_stop", ret |-> "read", file |-> c.file, osd |-> c.osd,
                  proc |-> NONE, act |-> act, show |-> show, dur |-> NoTime]

----------------------------------------------------------------------------
(* run_jukebox, lines 216-248: session start *)

\* a session start that leaves exit_requested as the last session left it
M_Reset_keep_exit ==
    /\ m.pc = "reset"
    /\ shuffle_all' = FALSE
    /\ current_show' = NoShow
    /\ m' = [m EXCEPT !.pc = "idle"]
    /\ UNCHANGED <<process_lock, current_process, welcome_looping,
                   exit_requested, procs, orphans, wd, wl, skip_pressed_time,
                   key_pressed_times, env>>

\* lines 219-221; shuffle_all and current_show hold these values already when
\* a session starts (lines 41-42 before the first, lines 272-273 before any
\* other), so that line 219 is the one write another thread can see
M_Reset ==
    /\ m.pc = "reset"
    /\ exit_requested' = FALSE
    /\ shuffle_all' = FALSE
    /\ current_show' = NoShow
    /\ m' = [m EXCEPT !.pc = "idle"]
    /\ UNCHANGED <<process_lock, current_process, welcome_looping, procs, orphans, wd, wl,
                   skip_pressed_time, key_pressed_times, env>>

\* line 222
M_Idle ==
    /\ m.pc = "idle"
    /\ welcome_looping' = TRUE
    /\ m' = [m EXCEPT !.pc = "device"]
    /\ UNCHANGED <<process_lock, current_process, shuffle_all, current_show,
                   exit_requested, procs, orphans, wd, wl, skip_pressed_time,
                   key_pressed_times, env>>

\* lines 225, 231-232: the device exists and opens
M_DeviceOk ==
    /\ m.pc = "device"
    /\ free_env \/ session = 1 \/ inputs = 0
    /\ m' = [m EXCEPT !.pc = "spawn"]
    /\ UNCHANGED <<process_lock, current_process, globals, procs, orphans, wd, wl,
                   skip_pressed_time, key_pressed_times, env>>

\* lines 225-229 and 233-237, play_error_video lines 130-138: the device is
\* missing or does not open; path is the error clip picked ("" when there is
\* no error directory or no clip in it)
M_DeviceFail(msg, path) ==
    /\ m.pc = "device"
    /\ m' = IF path = ""
            THEN [MainIdle("failed") EXCEPT !.act = "error"]
            ELSE [pc |-> "pv_stop", ret |-> "err_sample", file |-> path, osd |-> msg,
                  proc |-> NONE, act |-> "error", show |-> NoShow, dur |-> NoTime]
    /\ UNCHANGED <<process_lock, current_process, globals, procs, orphans, wd, wl,
                   skip_pressed_time, key_pressed_times, env>>

\* play_error_video, lines 141-142: with process_lock: proc = current_process
M_ErrSample ==
    /\ m.pc = "err_sample"
    /\ ~process_lock
    /\ UNCHANGED <<process_lock, globals, skip_pressed_time, key_pressed_times, env>>
    /\ Commit(current_process, [m EXCEPT !.pc = "err_poll", !.proc = current_process],
              wd, wl, procs, orphans)

\* play_error_video, lines 143-145, then run_jukebox returns False
M_ErrPoll ==
    /\ m.pc = "err_poll"
    /\ UNCHANGED <<process_lock, globals, skip_pressed_time, key_pressed_times, env>>
    /\ Commit(current_process,
              IF m.proc = NONE \/ ~PollIsNone(m.proc)
              THEN [MainIdle("failed") EXCEPT !.act = "error"]
              ELSE [m EXCEPT !.pc = "err_sample", !.proc = NONE],
              wd, wl, procs, orphans)

\* main, lines 301-303: sys.exit(1); the daemon threads end with the program,
\* and the lock with them
M_Exit ==
    /\ m.pc = "failed"
    /\ process_lock' = FALSE
    /\ UNCHANGED <<globals, skip_pressed_time, key_pressed_times, env>>
    /\ Commit(current_process, MainIdle("exited"),
              [i \in Threads |-> DeadThread], [i \in Threads |-> DeadThread],
              procs, orphans)

\* lines 240-248: start_welcome_loop (lines 213-214), the monitor thread, and
\* the locals of the input loop
M_Spawn ==
    /\ m.pc = "spawn"
    /\ welcome_looping' = TRUE
    /\ wl' = [wl EXCEPT ![session] = NewThread("start")]
    /\ wd' = [wd EXCEPT ![session] = NewThread("loop")]
    /\ skip_pressed_time' = NoTime
    /\ key_pressed_times' = [k \in ShowKeys |-> NoTime]
    /\ m' = MainIdle("read")
    /\ UNCHANGED <<process_lock, current_process, shuffle_all, current_show,
                   exit_requested, procs, orphans, env>>

----------------------------------------------------------------------------
(* run_jukebox, lines 250-295: the input loop.  Every action below handles  *)
(* one event of dev.read_loop() up to its first write of shared state.      *)

Reading == m.pc = "read"

\* lines 250-254: any event once exit_requested is set
E_Exit ==
    /\ Reading /\ exit_requested
    /\ inputs > 0
    /\ inputs' = inputs - 1
    /\ m' = [m EXCEPT !.pc = "exit_stop"]
    /\ UNCHANGED <<process_lock, current_process, globals, procs, orphans, wd, wl,
                   skip_pressed_time, key_pressed_times, session, free_env, keys>>

\* line 256: an event that is no EV_KEY of a mapped code, or a key repeat
\* (value 2): nothing is done
E_Other ==
    /\ Reading /\ ~exit_requested
    /\ UNCHANGED vars

\* no key but code is held
OthersUp(code) ==
    /\ code # SKIP_KEY_CODE => skip_pressed_time = NoTime
    /\ \A k \in ShowKeys \ {code} : key_pressed_times[k] = NoTime

\* lines 258-262: key down
E_KeyDown(code) ==
    /\ Reading /\ ~exit_requested
    /\ code \in keys
    /\ free_env \/ OthersUp(code)
    /\ inputs > 0
    /\ inputs' = inputs - 1
    /\ keys' = IF free_env THEN keys ELSE keys \ {code}
    /\ IF code = SKIP_KEY_CODE
       THEN skip_pressed_time' = 0 /\ UNCHANGED key_pressed_times
       ELSE key_pressed_times' = [key_pressed_times EXCEPT ![code] = 0]
                /\ UNCHANGED skip_pressed_time
    /\ UNCHANGED <<process_lock, current_process, globals, procs, orphans, m,
                   wd, wl, session, free_env>>

\* lines 266-286: release of the switch key
E_SkipUp ==
    /\ Reading /\ ~exit_requested
    /\ skip_pressed_time # NoTime
    /\ skip_pressed_time' = NoTime
    /\ LET duration == skip_pressed_time
           cls == SkipClass(duration)
       IN CASE cls = "very-long" ->
                 \* lines 271-272
                 /\ shuffle_all' = FALSE
                 /\ m' = [MainIdle("vl2") EXCEPT !.act = "very-long", !.dur = duration]
            [] cls = "long" ->
                 \* lines 277-278
                 /\ shuffle_all' = TRUE
                 /\ m' = [MainIdle("ls2") EXCEPT !.act = "skip-long", !.dur = duration]
            [] OTHER ->
                 \* lines 283-286
                 /\ UNCHANGED shuffle_all
                 /\ MainCall(IF shuffle_all
                             THEN next_episode(shuffle_all, current_show, "|SHUFFLE| ALL SHOWS")
                             ELSE IF current_show # NoShow
                                  THEN next_episode(shuffle_all, current_show,
                                                    "|SHUFFLE| " \o current_show)
                                  ELSE {},
                             "skip-short", NoShow)
    /\ UNCHANGED <<process_lock, current_process, welcome_looping, current_show, exit_requested,
                   procs, orphans, wd, wl, key_pressed_times, env>>

\* lines 288-293 and handle_key_press lines 194-206: release of a show key
E_KeyUp(code) ==
    /\ Reading /\ ~exit_requested
    /\ code \in ShowKeys
    /\ key_pressed_times[code] # NoTime
    /\ key_pressed_times' = [key_pressed_times EXCEPT ![code] = NoTime]
    /\ LET duration == key_pressed_times[code]
           long_press == LongPress(duration)
       IN /\ code \in DOMAIN KEY_MAP /\ KEY_MAP[code].kind # "SKIP"
          /\ welcome_looping' = FALSE
          /\ m' = [MainIdle("hk2") EXCEPT !.act = "key", !.dur = duration,
                                          !.show = BoundShow(code, long_press)]
    /\ UNCHANGED <<process_lock, current_process, shuffle_all, current_show, exit_requested,
                   procs, orphans, wd, wl, skip_pressed_time, env>>

\* a release with no recorded down that is handled as a press of no duration
E_SpuriousUp_handled(code) ==
    /\ Reading /\ ~exit_requested
    /\ IF code = SKIP_KEY_CODE
       THEN skip_pressed_time = NoTime /\ UNCHANGED vars
       ELSE /\ key_pressed_times[code] = NoTime
            /\ welcome_looping' = FALSE
            /\ m' = [MainIdle("hk2") EXCEPT !.act = "key", !.dur = 0,
                                            !.show = BoundShow(code, FALSE)]
            /\ UNCHANGED <<process_lock, current_process, shuffle_all, current_show, exit_requested,
                           procs, orphans, wd, wl, skip_pressed_time, key_pressed_times, env>>

\* lines 264-267, 289-290: a release with no recorded down is ignored
E_SpuriousUp(code) ==
    /\ Reading /\ ~exit_requested
    /\ IF code = SKIP_KEY_CODE
       THEN skip_pressed_time = NoTime
       ELSE key_pressed_times[code] = NoTime
    /\ UNCHANGED vars

\* handle_key_press, line 207
M_Hk2 ==
    /\ m.pc = "hk2"
    /\ current_show' = m.show
    /\ m' = [m EXCEPT !.pc = "hk3", !.dur = NoTime]
    /\ UNCHANGED <<process_lock, current_process, welcome_looping, shuffle_all, exit_requested,
                   procs, orphans, wd, wl, skip_pressed_time, key_pressed_times, env>>

\* handle_key_press, lines 208-209, and next_episode up to its play_video call
M_Hk3 ==
    /\ m.pc = "hk3"
    /\ shuffle_all' = FALSE
    /\ MainCall(next_episode(FALSE, current_show, ""), "key", m.show)
    /\ UNCHANGED <<process_lock, current_process, welcome_looping, current_show, exit_requested,
                   procs, orphans, wd, wl, skip_pressed_time, key_pressed_times, env>>

\* a long release that leaves current_show as it was
M_Ls2_keep ==
    /\ m.pc = "ls2"
    /\ m' = [m EXCEPT !.pc = "ls3", !.dur = NoTime]
    /\ UNCHANGED <<process_lock, current_process, globals, procs, orphans, wd, wl,
                   skip_pressed_time, key_pressed_times, env>>

\* line 279
M_Ls2 ==
    /\ m.pc = "ls2"
    /\ current_show' = NoShow
    /\ m' = [m EXCEPT !.pc = "ls3", !.dur = NoTime]
    /\ UNCHANGED <<process_lock, current_process, welcome_looping, shuffle_all, exit_requested,
                   procs, orphans, wd, wl, skip_pressed_time, key_pressed_times, env>>

\* lines 280-281, and next_episode up to its play_video call
M_Ls3 ==
    /\ m.pc = "ls3"
    /\ welcome_looping' = FALSE
    /\ MainCall(next_episode(shuffle_all, current_show, "|SHUFFLE| ALL SHOWS"),
                "skip-long", NoShow)
    /\ UNCHANGED <<process_lock, current_process, shuffle_all, current_show, exit_requested,
                   procs, orphans, wd, wl, skip_pressed_time, key_pressed_times, env>>

\* line 273
M_Vl2 ==
    /\ m.pc = "vl2"
    /\ current_show' = NoShow
    /\ m' = [m EXCEPT !.pc = "vl3", !.dur = NoTime]
    /\ UNCHANGED <<process_lock, current_process, welcome_looping, shuffle_all, exit_requested,
                   procs, orphans, wd, wl, skip_pressed_time, key_pressed_times, env>>

\* line 274
M_Vl3 ==
    /\ m.pc = "vl3"
    /\ exit_requested' = TRUE
    /\ m' = [m EXCEPT !.pc = "vl_stop"]
    /\ UNCHANGED <<process_lock, current_process, welcome_looping, shuffle_all, current_show,
                   procs, orphans, wd, wl, skip_pressed_time, key_pressed_times, env>>

\* line 275: stop_current_video() (after it the main thread is back waiting
\* for the next event)
M_VlStop(how) == M_Stop("vl_stop", "vl_stop2", how)

\* line 253: stop_current_video() (after it comes the break)
M_ExitStop(how) == M_Stop("exit_stop", "exit_stop2", how)

\* line 295 and main, lines 299-304: run_jukebox returned True and main calls
\* it again.
M_Return ==
    /\ m.pc = "returned"
    /\ session < MaxSessions
    /\ session' = session + 1
    /\ m' = MainIdle("reset")
    /\ skip_pressed_time' = NoTime
    /\ key_pressed_times' = [k \in ShowKeys |-> NoTime]
    /\ UNCHANGED <<process_lock, current_process, globals, procs, orphans, wd,
                   wl, inputs, free_env, keys>>

----------------------------------------------------------------------------
(* play_video, lines 93-123, as run by background thread i of the array th  *)

\* line 95: stop_current_video(), lines 83-90 with a running active process,
\* lines 83-91 without one
T_PvStop(th, i) ==
    [th EXCEPT ![i].pc = IF MustSignal THEN "pv_stop2" ELSE "pv_start"]

\* stop_current_video, line 91
T_StopAssign(th, i) == [th EXCEPT ![i].pc = "pv_start"]

\* line 121
T_PvStart(th, i) == [th EXCEPT ![i].pc = "pv_assign", ![i].proc = NewSlot]

\* lines 122-123; after is where the thread continues
T_PvAssign(th, i, after) == [th EXCEPT ![i] = NewThread(after)]

----------------------------------------------------------------------------
(* monitor_video_end, lines 177-185, and the next_episode it calls *)

\* line 179: while not exit_requested (then time.sleep(1))
W_Loop(i) ==
    /\ wd[i].pc = "loop"
    /\ wd' = [wd EXCEPT ![i] = IF exit_requested THEN DeadThread
                                ELSE [wd[i] EXCEPT !.pc = "sample"]]
    /\ UNCHANGED <<process_lock, current_process, globals, procs, orphans, m, wl,
                   skip_pressed_time, key_pressed_times, env>>

\* lines 181-182: with process_lock: proc = current_process
W_Sample(i) ==
    /\ wd[i].pc = "sample"
    /\ ~process_lock
    /\ UNCHANGED <<process_lock, globals, skip_pressed_time, key_pressed_times, env>>
    /\ Commit(current_process, m,
              [wd EXCEPT ![i].pc = "check", ![i].proc = current_process], wl,
              procs, orphans)

\* line 183, first and second operand: proc and proc.poll() is not None.  The
\* operands are evaluated in turn, and other threads run in between.
W_Check(i) ==
    /\ wd[i].pc = "check"
    /\ UNCHANGED <<process_lock, globals, skip_pressed_time, key_pressed_times, env>>
    /\ Commit(current_process, m,
              IF wd[i].proc # NONE /\ ~PollIsNone(wd[i].proc)
              THEN [wd EXCEPT ![i].pc = "check2"]
              ELSE [wd EXCEPT ![i].pc = "loop", ![i].proc = NONE],
              wl, procs, orphans)

\* line 183, third operand: not welcome_looping
W_Check2(i) ==
    /\ wd[i].pc = "check2"
    /\ UNCHANGED <<process_lock, globals, skip_pressed_time, key_pressed_times, env>>
    /\ Commit(current_process, m,
              IF ~welcome_looping
              THEN [wd EXCEPT ![i].pc = "check3"]
              ELSE [wd EXCEPT ![i].pc = "loop", ![i].proc = NONE],
              wl, procs, orphans)

\* line 183, fourth operand: not exit_requested; lines 184-185 when it holds
W_Check3(i) ==
    /\ wd[i].pc = "check3"
    /\ UNCHANGED <<process_lock, globals, skip_pressed_time, key_pressed_times, env>>
    /\ Commit(current_process, m,
              [wd EXCEPT ![i].proc = NONE,
                         ![i].pc = IF ~exit_requested THEN "ne1" ELSE "loop"],
              wl, procs, orphans)

\* next_episode, lines 150-158: if shuffle_all
W_Ne1(i) ==
    /\ wd[i].pc = "ne1"
    /\ IF shuffle_all
       THEN IF all_eps = {}
            THEN wd' = [wd EXCEPT ![i].pc = "loop"]
            ELSE \E e \in all_eps :
                    wd' = [wd EXCEPT ![i].pc = "pv_stop", ![i].file = e,
                                     ![i].osd = "|SHUFFLE| ALL SHOWS"]
       ELSE wd' = [wd EXCEPT ![i].pc = "ne2"]
    /\ UNCHANGED <<process_lock, current_process, globals, procs, orphans, m, wl,
                   skip_pressed_time, key_pressed_times, env>>

\* line 159: elif current_show
W_Ne2(i) ==
    /\ wd[i].pc = "ne2"
    /\ wd' = [wd EXCEPT ![i].pc = IF current_show # NoShow THEN "ne3" ELSE "loop"]
    /\ UNCHANGED <<process_lock, current_process, globals, procs, orphans, m, wl,
                   skip_pressed_time, key_pressed_times, env>>

\* lines 160-162: get_episodes(current_show), a second read of the global;
\* os.path.join(SHOWS_DIR, None) raises TypeError and the thread ends
W_Ne3(i) ==
    /\ wd[i].pc = "ne3"
    /\ IF current_show = NoShow
       THEN wd' = [wd EXCEPT ![i] = DeadThread]
       ELSE IF get_episodes(current_show) = {}
            THEN wd' = [wd EXCEPT ![i].pc = "loop"]
            ELSE \E e \in get_episodes(current_show) :
                    wd' = [wd EXCEPT ![i].pc = "ne4", ![i].file = e]
    /\ UNCHANGED <<process_lock, current_process, globals, procs, orphans, m, wl,
                   skip_pressed_time, key_pressed_times, env>>

\* line 163: the caption, a third read of the global
W_Ne4(i) ==
    /\ wd[i].pc = "ne4"
    /\ wd' = [wd EXCEPT ![i].pc = "pv_stop", ![i].osd = "|SHUFFLE| " \o current_show]
    /\ UNCHANGED <<process_lock, current_process, globals, procs, orphans, m, wl,
                   skip_pressed_time, key_pressed_times, env>>

W_PvStop(i, how) ==
    /\ wd[i].pc = "pv_stop"
    /\ ~process_lock
    /\ process_lock' = MustSignal
    /\ UNCHANGED <<globals, skip_pressed_time, key_pressed_times, env>>
    /\ Commit(IF MustSignal THEN current_process ELSE NONE, m, T_PvStop(wd, i), wl,
              StopProcs(how), StopOrphans(how))

W_StopAssign(i) ==
    /\ wd[i].pc = "pv_stop2"
    /\ process_lock' = FALSE
    /\ UNCHANGED <<globals, skip_pressed_time, key_pressed_times, env>>
    /\ Commit(NONE, m, T_StopAssign(wd, i), wl, procs, orphans)

W_PvStart(i) ==
    /\ wd[i].pc = "pv_start"
    /\ UNCHANGED <<process_lock, globals, skip_pressed_time, key_pressed_times, env>>
    /\ Commit(current_process, m, T_PvStart(wd, i), wl,
              Popen(wd[i].file, wd[i].osd, FALSE), orphans)

\* monitor_video_end goes back to line 179
W_PvAssign(i) ==
    /\ wd[i].pc = "pv_assign"
    /\ ~process_lock
    /\ UNCHANGED <<process_lock, globals, skip_pressed_time, key_pressed_times, env>>
    /\ Commit(wd[i].proc, m, T_PvAssign(wd, i, "loop"), wl, procs, orphans)

----------------------------------------------------------------------------
(* loop_welcome_video, lines 165-175 *)

\* line 167
L_Start(i) ==
    /\ wl[i].pc = "start"
    /\ welcome_looping' = TRUE
    /\ wl' = [wl EXCEPT ![i].pc = "outer"]
    /\ UNCHANGED <<process_lock, current_process, shuffle_all, current_show,
                   exit_requested, procs, orphans, m, wd, skip_pressed_time,
                   key_pressed_times, env>>

\* line 169, first operand: while welcome_looping
L_Outer(i) ==
    /\ wl[i].pc = "outer"
    /\ wl' = IF welcome_looping
             THEN [wl EXCEPT ![i].pc = "outer2"]
             ELSE [wl EXCEPT ![i] = DeadThread]
    /\ UNCHANGED <<process_lock, current_process, globals, procs, orphans, m, wd,
                   skip_pressed_time, key_pressed_times, env>>

\* line 169, second operand: not exit_requested; then lines 170-172,
\* get_random_file(WELCOME_DIR)
L_Outer2(i) ==
    /\ wl[i].pc = "outer2"
    /\ IF ~exit_requested
       THEN \E path \in WelcomePool :
                wl' = [wl EXCEPT ![i].pc = "pv_stop", ![i].file = path]
       ELSE wl' = [wl EXCEPT ![i] = DeadThread]
    /\ UNCHANGED <<process_lock, current_process, globals, procs, orphans, m, wd,
                   skip_pressed_time, key_pressed_times, env>>

L_PvStop(i, how) ==
    /\ wl[i].pc = "pv_stop"
    /\ ~process_lock
    /\ process_lock' = MustSignal
    /\ UNCHANGED <<globals, skip_pressed_time, key_pressed_times, env>>
    /\ Commit(IF MustSignal THEN current_process ELSE NONE, m, wd, T_PvStop(wl, i),
              StopProcs(how), StopOrphans(how))

L_StopAssign(i) ==
    /\ wl[i].pc = "pv_stop2"
    /\ process_lock' = FALSE
    /\ UNCHANGED <<globals, skip_pressed_time, key_pressed_times, env>>
    /\ Commit(NONE, m, wd, T_StopAssign(wl, i), procs, orphans)

\* line 173: play_video(path, loop=True)
L_PvStart(i) ==
    /\ wl[i].pc = "pv_start"
    /\ UNCHANGED <<process_lock, globals, skip_pressed_time, key_pressed_times, env>>
    /\ Commit(current_process, m, wd, T_PvStart(wl, i),
              Popen(wl[i].file, "", TRUE), orphans)

\* loop_welcome_video goes on to line 174
L_PvAssign(i) ==
    /\ wl[i].pc = "pv_assign"
    /\ ~process_lock
    /\ UNCHANGED <<process_lock, globals, skip_pressed_time, key_pressed_times, env>>
    /\ Commit(wl[i].proc, m, wd, T_PvAssign(wl, i, "inner1"), procs, orphans)

\* line 174, first operand: current_process (read without the lock)
L_Inner1(i) ==
    /\ wl[i].pc = "inner1"
    /\ wl' = [wl EXCEPT ![i].pc = IF current_process # NONE THEN "inner2" ELSE "outer"]
    /\ UNCHANGED <<process_lock, current_process, globals, procs, orphans, m, wd,
                   skip_pressed_time, key_pressed_times, env>>

\* line 174, second operand: current_process is read again for its poll
\* (None has no poll: AttributeError, the thread ends)
L_Inner2(i) ==
    /\ wl[i].pc = "inner2"
    /\ UNCHANGED <<process_lock, globals, skip_pressed_time, key_pressed_times, env>>
    /\ Commit(current_process, m, wd,
              IF current_process = NONE
              THEN [wl EXCEPT ![i] = DeadThread]
              ELSE [wl EXCEPT ![i].pc = "inner3", ![i].proc = current_process],
              procs, orphans)

\* line 174, second operand: .poll() is None, of the process just read
L_Inner3(i) ==
    /\ wl[i].pc = "inner3"
    /\ UNCHANGED <<process_lock, globals, skip_pressed_time, key_pressed_times, env>>
    /\ Commit(current_process, m, wd,
              [wl EXCEPT ![i].proc = NONE,
                         ![i].pc = IF PollIsNone(wl[i].proc) THEN "inner4" ELSE "outer"],
              procs, orphans)

\* line 174, third operand: welcome_looping
L_Inner4(i) ==
    /\ wl[i].pc = "inner4"
    /\ wl' = [wl EXCEPT ![i].pc = IF welcome_looping THEN "inner5" ELSE "outer"]
    /\ UNCHANGED <<process_lock, current_process, globals, procs, orphans, m, wd,
                   skip_pressed_time, key_pressed_times, env>>

\* line 174, fourth operand: not exit_requested; line 175 when it holds
L_Inner5(i) ==
    /\ wl[i].pc = "inner5"
    /\ wl' = [wl EXCEPT ![i].pc = IF ~exit_requested THEN "inner1" ELSE "outer"]
    /\ UNCHANGED <<process_lock, current_process, globals, procs, orphans, m, wd,
                   skip_pressed_time, key_pressed_times, env>>

----------------------------------------------------------------------------
(* The environment *)

\* one process less of kind r among those nobody holds
Less(r) ==
    [x \in {y \in DOMAIN orphans : y # r \/ orphans[y] > 1} |->
        IF x = r THEN orphans[x] - 1 ELSE orphans[x]]

\* a child launched without --loop plays its file and exits (--play-and-exit)
ProcExit ==
    /\ inputs > 0
    /\ inputs' = inputs - 1
    /\ UNCHANGED <<process_lock, current_process, globals, m, wd, wl,
                   skip_pressed_time, key_pressed_times, session, free_env, keys>>
    /\ \/ \E p \in Slots :
             /\ procs[p].st = "running" /\ ~procs[p].loop
             /\ procs' = [procs EXCEPT ![p].st = "exited"]
             /\ UNCHANGED orphans
       \/ \E r \in DOMAIN orphans :
             /\ r.st = "running" /\ ~r.loop
             /\ orphans' = Less(r)
             /\ UNCHANGED procs

\* a child that has been sent SIGKILL dies
KillLands ==
    /\ UNCHANGED <<process_lock, current_process, globals, m, wd, wl,
                   skip_pressed_time, key_pressed_times, env>>
    /\ \/ \E p \in Slots :
             /\ procs[p].st = "kill_sent"
             /\ procs' = [procs EXCEPT ![p].st = "killed"]
             /\ UNCHANGED orphans
       \/ \E r \in DOMAIN orphans :
             /\ r.st = "kill_sent"
             /\ orphans' = Less(r)
             /\ UNCHANGED procs

\* a recorded key-down 0.25 s later
Age(t) == IF t = NoTime \/ t >= MaxHold THEN t ELSE t + 1

\* a recorded key-down when the hold has reached the next threshold
Threshold(t) ==
    IF t = NoTime \/ t >= LONGER_PRESS_SECONDS THEN t
    ELSE IF t < LONG_PRESS_SECONDS THEN LONG_PRESS_SECONDS ELSE LONGER_PRESS_SECONDS

\* Time passes while the main thread waits for an event: 0.25 s, or, in the
\* environment of DeepSpec, the time up to the next threshold of the held
\* switch key (no clock is read between a key-down and its release, lines 260,
\* 268 and 291).
Tick ==
    /\ Reading
    /\ IF free_env
       THEN /\ \/ skip_pressed_time # NoTime /\ skip_pressed_time < MaxHold
               \/ \E k \in ShowKeys :
                     key_pressed_times[k] # NoTime /\ key_pressed_times[k] < MaxHold
            /\ skip_pressed_time' = Age(skip_pressed_time)
            /\ key_pressed_times' = [k \in ShowKeys |-> Age(key_pressed_times[k])]
       ELSE /\ skip_pressed_time # NoTime /\ skip_pressed_time < LONGER_PRESS_SECONDS
            /\ \A k \in ShowKeys : key_pressed_times[k] = NoTime
            /\ skip_pressed_time' = Threshold(skip_pressed_time)
            /\ UNCHANGED key_pressed_times
    /\ UNCHANGED <<process_lock, current_process, globals, procs, orphans, m, wd, wl, env>>

----------------------------------------------------------------------------

\* how the active process can take a terminate: it exits within the grace
\* ("terminated"), or it does not and is sent a kill ("kill_sent")
Hows ==
    IF free_env \/ (current_process # NONE /\ procs[current_process].loop)
    THEN {"terminated", "kill_sent"}
    ELSE {"terminated"}

\* run_jukebox, lines 226 and 234: the reason shown with the error clip
DeviceMessages ==
    {"DEVICE MISSING: Check USB connection"}
        \cup {"DEVICE ERROR: " \o e : e \in DeviceErrors}

MainStep ==
    \/ M_Reset \/ M_Idle \/ M_DeviceOk \/ M_Spawn
    \/ \E msg \in DeviceMessages :
          \E path \in ErrorPool \cup {""} : M_DeviceFail(msg, path)
    \/ M_ErrSample \/ M_ErrPoll \/ M_Exit
    \/ M_Hk2 \/ M_Hk3 \/ M_Ls2 \/ M_Ls3 \/ M_Vl2 \/ M_Vl3
    \/ \E how \in Hows : M_VlStop(how) \/ M_ExitStop(how) \/ M_PvStop(how)
    \/ M_StopAssign \/ M_PvStart \/ M_PvAssign \/ M_Return

WatchdogStep(i) ==
    \/ W_Loop(i) \/ W_Sample(i) \/ W_Check(i) \/ W_Check2(i) \/ W_Check3(i)
    \/ W_Ne1(i) \/ W_Ne2(i) \/ W_Ne3(i) \/ W_Ne4(i)
    \/ \E how \in Hows : W_PvStop(i, how)
    \/ W_StopAssign(i) \/ W_PvStart(i) \/ W_PvAssign(i)

WelcomeStep(i) ==
    \/ L_Start(i) \/ L_Outer(i) \/ L_Outer2(i)
    \/ \E how \in Hows : L_PvStop(i, how)
    \/ L_StopAssign(i) \/ L_PvStart(i) \/ L_PvAssign(i)
    \/ L_Inner1(i) \/ L_Inner2(i) \/ L_Inner3(i) \/ L_Inner4(i) \/ L_Inner5(i)

Event ==
    \/ E_Exit \/ E_Other \/ E_SkipUp
    \/ \E code \in Keys : E_KeyDown(code) \/ E_SpuriousUp(code)
    \/ \E code \in ShowKeys : E_KeyUp(code)

Next ==
    \/ MainStep
    \/ \E i \in Threads : WatchdogStep(i) \/ WelcomeStep(i)
    \/ Event
    \/ ProcExit \/ KillLands
    \/ Tick

Spec == Init /\ [][Next]_vars

\* The program with a longer supply of inputs, in one of the environments it
\* can meet: key 2 and the switch key are pressed, once each at most and one
\* at a time, key 2 for less than 0.25 s and the switch key for no time,
\* 0.75 s or 2 s, an episode or an error clip exits on terminate (only a
\* looping welcome video can sit out the grace), and when main calls
\* run_jukebox a second time the input device is not back before the
\* environment has given all its inputs.
DeepSpec == DeepInit /\ [][Next]_vars

\* The threads are scheduled fairly in that environment, with one key in
\* use (key 2 or the switch key): a thread that can take its next step takes
\* it.  Nothing is assumed of when the environment acts (events, playback
\* endings, the death of a killed child, the passing of time).
FairSpec ==
    /\ FairInit /\ [][Next]_vars
    /\ WF_vars(MainStep)
    /\ \A i \in Threads : WF_vars(WatchdogStep(i)) /\ WF_vars(WelcomeStep(i))

----------------------------------------------------------------------------
(* The mode, as section 3 of the specification names it *)

ModeIdle == ~shuffle_all /\ current_show = NoShow
ModeAllShuffle == shuffle_all /\ current_show = NoShow
ModeShowShuffle(show) == ~shuffle_all /\ current_show = show /\ show # NoShow

NoKeyHeld ==
    skip_pressed_time = NoTime /\ \A k \in ShowKeys : key_pressed_times[k] = NoTime

\* the active process is a running episode of show, launched without --loop
PlayingEpisodeOf(show) ==
    /\ current_process # NONE
    /\ procs[current_process].st = "running"
    /\ ~procs[current_process].loop
    /\ procs[current_process].file \in get_episodes(show)

----------------------------------------------------------------------------
(* C1 *)

\* C1: in every reachable state at most one child playback process is live
\* (launched and not yet exited).
C1_AtMostOneLive == LiveCount <= 1

----------------------------------------------------------------------------
(* C2 *)

\* C2: once the very long release of the switch key has been processed (the
\* main thread is back at the input loop with exit_requested set), run_jukebox
\* eventually returns True to main, also when no further event arrives
\* (although the environment could still produce one).
C2_VeryLongReturns ==
    (m.pc = "read" /\ m.act = "very-long" /\ exit_requested /\ inputs > 0)
        ~> (m.pc = "returned")

----------------------------------------------------------------------------
(* C3 *)

\* the active process was launched without --loop and has exited on its own,
\* the mode is ShowShuffle(show) with episodes, the session is not
\* terminating and the main thread waits for events with no key held
C3_Ended(show) ==
    /\ ModeShowShuffle(show) /\ ~welcome_looping /\ ~exit_requested
    /\ get_episodes(show) # {}
    /\ current_process # NONE
    /\ procs[current_process].st = "exited"
    /\ ~procs[current_process].loop
    /\ m.pc = "read" /\ NoKeyHeld

\* C3: from such a state, with no further input, an episode of the show
\* eventually is the active running process.
C3_AutoAdvance ==
    \A show \in DOMAIN Library : \A n \in 0..MaxInputs :
        (C3_Ended(show) /\ inputs = n) ~> (PlayingEpisodeOf(show) \/ inputs < n)

----------------------------------------------------------------------------
(* Steps of the main thread, recognised by what they change *)

\* the main thread takes a step
MainMoves == m' # m

\* the release of show key k is taken up (lines 289-293)
KeyReleased(k) ==
    /\ m.pc = "read" /\ MainMoves
    /\ key_pressed_times[k] # NoTime /\ key_pressed_times'[k] = NoTime

\* the release of the switch key is taken up (lines 266-269)
SkipReleased ==
    /\ m.pc = "read" /\ ~exit_requested
    /\ skip_pressed_time # NoTime /\ skip_pressed_time' = NoTime

\* play_video of the main thread assigns the process it launched (lines
\* 122-123)
MainLaunches(act) == m.act = act /\ m.pc = "pv_assign" /\ MainMoves

\* after the step the active process is one launched on a file of files
\* without --loop under caption c, which no thread has stopped
ActiveAfter(files, caption) ==
    /\ current_process' # NONE
    /\ procs'[current_process'].st \in {"running", "exited"}
    /\ procs'[current_process'].file \in files
    /\ ~procs'[current_process'].loop
    /\ procs'[current_process'].osd = caption

----------------------------------------------------------------------------
(* C4 *)

C4_Step ==
    /\ \A k \in ShowKeys :
          KeyReleased(k) =>
              /\ welcome_looping' = FALSE
              /\ m'.act = "key"
              /\ m'.show = IF key_pressed_times[k] < LONG_PRESS_SECONDS
                           THEN KEY_MAP[k].short ELSE KEY_MAP[k].long
    /\ (m.act = "key" /\ MainMoves) =>
          /\ m'.pc # "hk2" => current_show' = m.show
          /\ m'.pc \notin {"hk2", "hk3"} => ~shuffle_all'
          /\ (m.pc = "hk3" /\ get_episodes(m.show) # {}) => m'.pc = "pv_stop"
          /\ welcome_looping' = welcome_looping
    /\ MainLaunches("key") =>
          /\ m'.pc = "read"
          /\ ActiveAfter(get_episodes(m.show), "|SHUFFLE| " \o m.show)

\* C4: the release of show key k held for d selects s, k's short binding when
\* d < T1 and its long binding when d >= T1; the handler writes welcome_looping
\* false, current_show = s and shuffle_all false, in this order, and nothing
\* else of the mode; when s has episodes it goes on to play_video, and the
\* process it makes active is a running episode of s, launched without --loop
\* under the caption "|SHUFFLE| s", with the mode ShowShuffle(s).
C4_KeyReleaseSelectsShow == [][C4_Step]_vars

\* the handler of a long press of key 2 has just made an episode of Futurama
\* the active process
C4_Witness ==
    /\ m.pc = "read" /\ ModeShowShuffle("Futurama") /\ ~welcome_looping
    /\ PlayingEpisodeOf("Futurama")
    /\ procs[current_process].osd = "|SHUFFLE| Futurama"

----------------------------------------------------------------------------
(* C5 *)

C5_Step ==
    /\ (SkipReleased /\ skip_pressed_time >= LONG_PRESS_SECONDS
                     /\ skip_pressed_time < LONGER_PRESS_SECONDS) =>
          /\ shuffle_all' = TRUE
          /\ m'.act = "skip-long"
    /\ (m.act = "skip-long" /\ MainMoves) =>
          /\ shuffle_all' = TRUE
          /\ current_show' = NoShow
          /\ m.pc = "ls3" => (welcome_looping' = FALSE /\ (all_eps # {} => m'.pc = "pv_stop"))
          /\ m.pc # "ls3" => welcome_looping' = welcome_looping
    /\ MainLaunches("skip-long") =>
          /\ m'.pc = "read"
          /\ ActiveAfter(all_eps, "|SHUFFLE| ALL SHOWS")

\* C5: the release of the switch key held for T1 <= d < T2 writes shuffle_all
\* true, current_show None and welcome_looping false, whatever the mode was;
\* with a non-empty library the handler goes on to play_video, and the process
\* it makes active is a running episode of some show, launched without --loop
\* under the caption "|SHUFFLE| ALL SHOWS", with the mode AllShuffle.
C5_LongSkipShufflesAll == [][C5_Step]_vars

\* a long release of the switch key in ShowShuffle has been handled
C5_Witness ==
    /\ m.pc = "read" /\ ModeAllShuffle /\ ~welcome_looping
    /\ current_process # NONE
    /\ procs[current_process].st = "running"
    /\ procs[current_process].file \in all_eps
    /\ procs[current_process].osd = "|SHUFFLE| ALL SHOWS"

----------------------------------------------------------------------------
(* C6 *)

\* a short release of the switch key is taken up
ShortSkipReleased == SkipReleased /\ skip_pressed_time < LONG_PRESS_SECONDS

C6_Step ==
    /\ ShortSkipReleased =>
          /\ UNCHANGED <<current_process, globals, procs, orphans>>
          /\ ModeIdle => m' = m
          /\ (ModeAllShuffle /\ all_eps # {}) =>
                (m'.act = "skip-short" /\ m'.pc = "pv_stop")
          /\ \A show \in DOMAIN Library :
                (ModeShowShuffle(show) /\ get_episodes(show) # {}) =>
                    (m'.act = "skip-short" /\ m'.pc = "pv_stop")
    /\ (m.act = "skip-short" /\ MainMoves) => UNCHANGED globals
    /\ MainLaunches("skip-short") =>
          /\ m'.pc = "read"
          /\ IF shuffle_all
             THEN ActiveAfter(all_eps, "|SHUFFLE| ALL SHOWS")
             ELSE /\ current_show # NoShow
                  /\ ActiveAfter(get_episodes(current_show), "|SHUFFLE| " \o current_show)

\* C6: the release of the switch key held for d < T1 writes none of
\* shuffle_all, current_show, welcome_looping and exit_requested, in any step
\* of its handling; in Idle the whole handling is one step that changes
\* nothing but the recorded key-down; in AllShuffle, and in ShowShuffle(X)
\* with episodes, the handler calls play_video and the process it makes active
\* is an episode of the library, of X, under that mode's caption.
C6_ShortSkipKeepsMode == [][C6_Step]_vars

\* a short release of the switch key in ShowShuffle(The Simpsons) has put the
\* main thread in play_video
C6_Witness ==
    /\ m.act = "skip-short" /\ m.pc = "pv_start"
    /\ ModeShowShuffle("The Simpsons")
    /\ m.file \in get_episodes("The Simpsons")

----------------------------------------------------------------------------
(* C7 *)

C7_Step ==
    /\ SkipReleased =>
          LET d == skip_pressed_time
          IN /\ d < LONG_PRESS_SECONDS => m'.act \in {"skip-short", ""}
             /\ (d >= LONG_PRESS_SECONDS /\ d < LONGER_PRESS_SECONDS) =>
                   (m'.act = "skip-long" /\ m'.dur = d)
             /\ d >= LONGER_PRESS_SECONDS => (m'.act = "very-long" /\ m'.dur = d)
    /\ \A k \in ShowKeys :
          KeyReleased(k) =>
              LET d == key_pressed_times[k]
              IN /\ m'.act = "key" /\ m'.dur = d
                 /\ d < LONG_PRESS_SECONDS => m'.show = KEY_MAP[k].short
                 /\ d >= LONG_PRESS_SECONDS => m'.show = KEY_MAP[k].long
    /\ m.act = "key" => exit_requested' = exit_requested

\* C7: a release of the switch key held for d is handled as short when
\* d < T1, as long when T1 <= d < T2 and as very long when d >= T2; a release
\* of any other mapped key held for d selects the short binding when d < T1
\* and the long binding when d >= T1, and no step taken while a show key is
\* handled sets exit_requested.
C7_Classification == [][C7_Step]_vars

\* a switch-key release after exactly T2 is being handled as very long
C7_Witness ==
    m.act = "very-long" /\ m.pc = "vl2" /\ m.dur = LONGER_PRESS_SECONDS

----------------------------------------------------------------------------
(* C8 *)

\* C8: when run_jukebox is about to return False after a device failure, no
\* error clip is still playing.
C8_ClipFinished ==
    m.pc = "failed" =>
        /\ \A p \in Slots : ~(PollIsNone(p) /\ procs[p].file \in ErrorPool)
        /\ \A r \in DOMAIN orphans : r.file \notin ErrorPool

----------------------------------------------------------------------------
(* C9 *)

\* C9: when run_jukebox of the first session returns True after a very long
\* press, no child process is running.
C9_NothingRunningAtReturn ==
    (m.pc = "returned" /\ session = 1) => LiveCount = 0

----------------------------------------------------------------------------
(* C10 *)

\* C10: at most one watchdog thread and at most one welcome-loop thread are
\* alive at any time.
C10_OneThreadOfEachKind ==
    Cardinality(AliveWd) <= 1 /\ Cardinality(AliveWl) <= 1

----------------------------------------------------------------------------
(* C11 *)

\* a watchdog thread launches a process (line 121), or signals one that is
\* running (lines 84-90)
WatchdogLaunches == \E i \in Threads : wd[i].pc = "pv_start" /\ wd'[i].pc = "pv_assign"
WatchdogStops == \E i \in Threads : wd[i].pc = "pv_stop" /\ wd'[i].pc = "pv_stop2"

\* C11: no watchdog thread stops a running process or launches one in a state
\* where welcome_looping is true and the mode is Idle.
C11_WatchdogQuietWhileIdle ==
    [][(WatchdogLaunches \/ WatchdogStops) => ~(welcome_looping /\ ModeIdle)]_vars

----------------------------------------------------------------------------
(* C12 *)

\* the active process is a running welcome video (launched with --loop)
WelcomeVideoActive ==
    /\ current_process # NONE
    /\ procs[current_process].st = "running"
    /\ procs[current_process].loop

\* C12: when the main thread waits for events in ShowShuffle or AllShuffle and
\* every welcome-loop thread has run to its end, the active process is not a
\* looping welcome video.
C12_IdleLoopStopped ==
    (m.pc = "read" /\ ~ModeIdle /\ AliveWl = {}) => ~WelcomeVideoActive

----------------------------------------------------------------------------
(* C13 *)

C13_Step ==
    /\ \A k \in ShowKeys :
          (KeyReleased(k) /\ get_episodes(m'.show) = {}) =>
              UNCHANGED <<current_process, globals, procs, orphans>>
    /\ (m.act = "key" /\ get_episodes(m.show) = {} /\ MainMoves) =>
          /\ UNCHANGED <<current_process, globals, procs, orphans>>
          /\ m'.pc \in {"hk3", "read"}

\* C13: handling the release of a show key whose selected show has no
\* episodes changes nothing: no step of the handler stops or launches a
\* process or writes shuffle_all, current_show, welcome_looping or
\* exit_requested, and the main thread returns to the input loop.
C13_EmptyCategoryNoOp == [][C13_Step]_vars

----------------------------------------------------------------------------
(* C14 *)

\* some thread finds an active running process at line 84 and signals it
\* (lines 84-90) in this step
StopSignals ==
    \/ m.pc \in {"pv_stop", "vl_stop", "exit_stop"}
          /\ m'.pc \in {"pv_stop2", "vl_stop2", "exit_stop2"}
    \/ \E i \in Threads : wd[i].pc = "pv_stop" /\ wd'[i].pc = "pv_stop2"
    \/ \E i \in Threads : wl[i].pc = "pv_stop" /\ wl'[i].pc = "pv_stop2"

\* some thread runs stop_current_video to its end with nothing to signal: no
\* active process, or one that has ended already
StopFindsNothing ==
    \/ m.pc = "pv_stop" /\ m'.pc = "pv_start"
    \/ m.pc = "vl_stop" /\ m'.pc = "read"
    \/ m.pc = "exit_stop" /\ m'.pc = "returned"
    \/ \E i \in Threads : wd[i].pc = "pv_stop" /\ wd'[i].pc = "pv_start"
    \/ \E i \in Threads : wl[i].pc = "pv_stop" /\ wl'[i].pc = "pv_start"

\* some thread that has signalled the active process runs line 91 and returns
StopClears ==
    \/ m.pc \in {"pv_stop2", "vl_stop2", "exit_stop2"} /\ MainMoves
    \/ \E i \in Threads : wd[i].pc = "pv_stop2" /\ wd'[i].pc = "pv_start"
    \/ \E i \in Threads : wl[i].pc = "pv_stop2" /\ wl'[i].pc = "pv_start"

\* the number of child processes in one of the given states
CountOf(states) ==
    Cardinality({p \in Slots : procs[p].st \in states})
        + Total([r \in {x \in DOMAIN orphans : x.st \in states} |-> orphans[r]])

C14_Step ==
    /\ (StopFindsNothing \/ StopClears) =>
          /\ current_process' = NONE
          /\ current_process # NONE => ~PollIsNone(current_process)
    /\ StopFindsNothing =>
          /\ CountOf({"running"})' = CountOf({"running"})
          /\ CountOf({"terminated"})' <= CountOf({"terminated"})
          /\ CountOf({"kill_sent"})' = CountOf({"kill_sent"})
    /\ StopSignals => (current_process # NONE /\ procs[current_process].st = "running")

\* C14: every call of stop_current_video returns with current_process None and
\* with the process that was active not running; it signals (terminate, kill)
\* only a process that is active and running, so a call with no active
\* process (the second of two calls in a row) or with one that has already
\* exited signals no process.
C14_StopIdempotent == [][C14_Step]_vars

----------------------------------------------------------------------------
(* C15 *)

\* C15: in every state, shuffle_all = true and current_show # None do not hold
\* together.
C15_OneMode == ~(shuffle_all /\ current_show # NoShow)

----------------------------------------------------------------------------
(* C16 *)

\* watchdog thread i finds the last operand of line 183 true, as it found the
\* others, and calls next_episode
WatchdogAdvances(i) == wd[i].pc = "check3" /\ wd'[i].pc = "ne1"

\* C16: a watchdog thread calls next_episode only for a process that exited
\* on its own and is still the active process.
C16_AdvanceOnlyAfterOwnExit ==
    [][\A i \in Threads :
          WatchdogAdvances(i) =>
              (procs[wd[i].proc].st = "exited" /\ current_process = wd[i].proc)]_vars

----------------------------------------------------------------------------
(* C17 *)

C17_Step ==
    /\ StopSignals =>
          /\ procs'[current_process].st \in {"terminated", "kill_sent"}
          /\ CountOf({"running"})' = CountOf({"running"}) - 1
          /\ process_lock' /\ current_process' = current_process
    /\ StopClears =>
          /\ procs[current_process].st \in {"terminated", "killed"}
          /\ current_process' = NONE
          /\ ~process_lock'

\* C17: a call of stop_current_video that finds the active process running
\* signals that process and no other, with terminate alone or with terminate
\* and one kill, and when it returns (line 91) the process is no longer
\* running, current_process is None and the lock is released.
C17_StopEscalatesOnce == [][C17_Step]_vars

----------------------------------------------------------------------------
(* C18 *)

\* a key-down event is taken up (lines 258-262)
KeyDownTaken ==
    /\ m.pc = "read" /\ m' = m /\ inputs' # inputs
    /\ <<skip_pressed_time, key_pressed_times>>' # <<skip_pressed_time, key_pressed_times>>

C18_Step ==
    /\ (m.pc = "read" /\ ~exit_requested /\ MainMoves) =>
          \/ /\ SkipReleased
             /\ key_pressed_times' = key_pressed_times
          \/ /\ m'.act = "key"
             /\ skip_pressed_time' = skip_pressed_time
             /\ \E k \in ShowKeys :
                   /\ KeyReleased(k)
                   /\ m'.dur = key_pressed_times[k]
                   /\ \A j \in ShowKeys \ {k} : key_pressed_times'[j] = key_pressed_times[j]
    /\ SkipReleased => (m'.dur \in {NoTime, skip_pressed_time})
    /\ KeyDownTaken =>
          /\ skip_pressed_time' \in {skip_pressed_time, 0}
          /\ \A k \in ShowKeys : key_pressed_times'[k] \in {key_pressed_times[k], 0}
          /\ UNCHANGED <<current_process, globals, procs, orphans>>

\* C18: the main thread starts handling a key (leaves the input loop, or
\* writes anything) only on a release of a key whose down is recorded, and
\* that release clears the record of that key and of no other; a down sets
\* the record of its key to the present time whatever it held, so that the
\* duration used at the release is the time since the latest down.
C18_UnmatchedUpIgnored == [][C18_Step]_vars

\* the release of key 2 has been handled and its recorded down cleared: an up
\* of key 2 arriving now finds no recorded down
C18_Witness ==
    /\ m.pc = "read" /\ ~exit_requested /\ NoKeyHeld
    /\ ModeShowShuffle("The Simpsons")

----------------------------------------------------------------------------
(* C19 *)

\* the input loop of a session begins (lines 240-250)
LoopBegins == m.pc = "spawn" /\ MainMoves

C19_Step ==
    LoopBegins =>
        /\ m'.pc = "read"
        /\ ~shuffle_all' /\ current_show' = NoShow
        /\ welcome_looping' /\ ~exit_requested'

\* C19: when the input loop of a session begins, in the first session and in
\* one that follows a terminated session, shuffle_all is false, current_show
\* is None, welcome_looping is true and exit_requested is false; and from the
\* start of the loop, unless the environment produces an input, a looping
\* welcome video eventually is the active running process.
C19_SessionStartsIdle ==
    /\ [][C19_Step]_vars
    /\ \A n \in 0..MaxInputs :
          (m.pc = "spawn" /\ inputs = n) ~> (WelcomeVideoActive \/ inputs < n)

\* the second session is in its input loop, in Idle, with a welcome video
\* looping as the active process
C19_Witness ==
    /\ session = 2 /\ m.pc = "read"
    /\ ModeIdle /\ welcome_looping /\ ~exit_requested
    /\ WelcomeVideoActive

----------------------------------------------------------------------------
(* C20 *)

\* the active process was launched without --loop
EpisodeActive == current_process # NONE /\ ~procs[current_process].loop

\* C20: whenever the main thread waits for an event and a process launched
\* without --loop is active, in ShowShuffle(X) that process plays an episode
\* of X under the caption "|SHUFFLE| X", and in AllShuffle its caption is
\* "|SHUFFLE| ALL SHOWS".
C20_ActiveMatchesMode ==
    (m.pc = "read" /\ EpisodeActive) =>
        /\ ModeAllShuffle => procs[current_process].osd = "|SHUFFLE| ALL SHOWS"
        /\ \A show \in {KEY_MAP[k].short : k \in ShowKeys} \cup {KEY_MAP[k].long : k \in ShowKeys} :
              ModeShowShuffle(show) =>
                  /\ procs[current_process].file \in get_episodes(show)
                  /\ procs[current_process].osd = "|SHUFFLE| " \o show

====
